---- MODULE Spec2Model ----
(***************************************************************************)
(* Composite galaxy-halo models of halotools/empirical_models/             *)
(* model_factories.py: SubhaloModelFactory (the flat variant) and          *)
(* HodModelFactory (the typed variant).                                    *)
(*                                                                         *)
(* The module is Python 2 code (dict.items() returns a list, and lists are *)
(* concatenated with +), and is modelled with Python 2 semantics.          *)
(*                                                                         *)
(* Python objects that are shared by reference (the live param_dict, the   *)
(* snapshot _init_param_dict, a mapping assigned by the caller) live in    *)
(* heap; an attribute that refers to one of them holds its object id.      *)
(* A Python dict is a TLA+ function whose domain is a set of strings; a    *)
(* dict's keys() order is the order of the entries of a sequence.          *)
(***************************************************************************)
EXTENDS Integers, Sequences, FiniteSets, TLC

VARIABLES
    variant,            \* "flat" (SubhaloModelFactory) or "typed" (HodModelFactory)
    blueprint,          \* the caller's input_model_blueprint, in keys() order
    declared,           \* its slot (galaxy-type) keys, in the order the caller's dict display wrote them
    galprop_sequence,   \* the galprop_sequence keyword argument (flat variant)
    status,             \* "new", "constructed" (__init__ returned) or "failed" (it raised)
    error,              \* the exception __init__ raised
    self,               \* the attributes of the factory instance
    heap,               \* the dict objects that are shared by reference
    lastCall,           \* what the component received, when the latest step was a behaviour call
    mock                \* the mock attribute, and what populate_mock has asked of its collaborators

vars == <<variant, blueprint, declared, galprop_sequence, status, error, self, heap, lastCall, mock>>

-----------------------------------------------------------------------------
(* Bounds *)

\* parameter values range over 1..MaxVal
MaxVal == 2

Values == 1..MaxVal

\* the keyword arguments a caller hands to a bound behaviour (the working table)
Tables == {"t1", "t2"}

-----------------------------------------------------------------------------
(* Python helpers *)

NoErr == [kind |-> "none", keys |-> {}]

Err(kind, keys) == [kind |-> kind, keys |-> keys]

EmptyDict == <<>>

\* a merge that forgets the items merged before
DictOfItemsForgetting(a, b) == a

\* dict(a.items() + b.items()): on a shared key the item of b, the later one, wins
DictOfItems(a, b) == b @@ a

\* {prefix + '_' + key: val for key, val in d.items()}
Namespaced(prefix, d) ==
    LET keys == {prefix \o "_" \o k : k \in DOMAIN d}
    IN [nk \in keys |-> d[CHOOSE k \in DOMAIN d : prefix \o "_" \o k = nk]]

\* the entries of a sequence, as a set
Range(s) == {s[i] : i \in DOMAIN s}

\* the keys of a blueprint, in keys() order
Keys(bp) == [i \in DOMAIN bp |-> bp[i].key]

\* 'mock_factory' in bp.keys(): membership in a list compares with ==
HasKey(bp, k) == \E i \in DOMAIN bp : bp[i].key = k

\* bp[k]
Lookup(bp, k) == bp[CHOOSE i \in DOMAIN bp : bp[i].key = k].value

\* no copy: a second name of the object d
Alias(d) == [original |-> d, own |-> d, same |-> TRUE]

\* copy(d): a new dict object with the items of d.  The copy is followed as a
\* pair of the object copied (original) and the new object (own); what is
\* written to one object reaches the other only if they are the same object.
Copy(d) == [original |-> d, own |-> d, same |-> FALSE]

\* b[entry.key] = entry.value, on the new object of the pair b, for a key that
\* b does not have
SetItem(b, entry) ==
    [b EXCEPT !.own = Append(@, entry),
              !.original = IF b.same THEN Append(@, entry) ELSE @]

\* `key is not 'mock_factory'`: an identity test. It is False only for the
\* very string object of the literal, and True for every other key, also for
\* an equal key that is another object (a unicode key, a key built at run time).
IsNotMockFactory(entry) == ~(entry.key = "mock_factory" /\ entry.identical)

-----------------------------------------------------------------------------
(* Component models: the handles a blueprint holds.  A handle is duck-typed; *)
(* has_* says whether hasattr finds the attribute.                           *)

NoMeta ==
    [has_prim |-> FALSE, prim |-> "", has_sec |-> FALSE, sec |-> "",
     has_publications |-> FALSE, publications |-> {},
     has_new_haloprop_func_dict |-> FALSE, new_haloprop_func_dict |-> EmptyDict]

Meta(prim, sec, pubs, funcs) ==
    [has_prim |-> TRUE, prim |-> prim, has_sec |-> sec # "", sec |-> sec,
     has_publications |-> TRUE, publications |-> pubs,
     has_new_haloprop_func_dict |-> TRUE, new_haloprop_func_dict |-> funcs]

MetaNoFuncs(prim, sec, pubs) ==
    [Meta(prim, sec, pubs, EmptyDict) EXCEPT !.has_new_haloprop_func_dict = FALSE]

\* a component model of the flat variant, with the identity it reports of
\* itself (galprop_key); it has the Monte Carlo method the factory asks it for
GalpropModel(galprop_key, has_pd, pd, meta) ==
    [kind |-> "component", galprop_key |-> galprop_key,
     has_param_dict |-> has_pd, param_dict |-> pd, meta |-> meta]

\* a mock factory (the value of the blueprint's mock_factory key): a class with
\* none of the attributes of a component model
MockFactory(name) ==
    [kind |-> "factory", galprop_key |-> name,
     has_param_dict |-> FALSE, param_dict |-> EmptyDict, meta |-> NoMeta]

Entry(k, identical, v) == [key |-> k, identical |-> identical, value |-> v]

\* a component model of the typed variant.  An occupation model has an
\* occupation_bound and the method mc_occupation, and may have mean_occupation;
\* a profile model has prof_param_keys, and for each of them an accessor of its
\* own and one of its halo_prof_model.
HodComponent(bound, has_pd, pd, has_mean, has_keys, keys, meta) ==
    [kind |-> "component", id |-> "", occupation_bound |-> bound,
     has_param_dict |-> has_pd, param_dict |-> pd,
     has_mean_occupation |-> has_mean,
     has_prof_param_keys |-> has_keys, prof_param_keys |-> keys,
     meta |-> meta]

\* the handle registered as feature `feature` of galaxy type gal_type: the
\* object's identity is its place in the blueprint
Registered(gal_type, feature, component) ==
    [key |-> feature,
     value |-> [component EXCEPT !.id = gal_type \o "." \o feature]]

\* the value of a galaxy-type key of a typed blueprint: a dict of features, in
\* keys() order
GalTypeDict(features) == [kind |-> "gal_type_dict", items |-> features]

-----------------------------------------------------------------------------
(* The factory instance: its attributes, and with them the exception raised  *)
(* so far (raised), the dict that _set_init_param_dict is merging (pd, which *)
(* moves to the heap when the constructor ends) and the slots each loop of   *)
(* the constructor has visited, in order (visits; halos lists the setattr of  *)
(* line 476 that the latest _set_primary_behaviors ran).  param_dict and     *)
(* init_param_dict (_init_param_dict in the source) hold the id of a heap    *)
(* object, or NoObj while the attribute is not bound.                        *)
(* galprop_list_is_sequence says whether galprop_list is the list object the *)
(* caller passed as galprop_sequence (line 196) or a list of the instance's  *)
(* own (line 198).                                                           *)

NoObj == 0 - 1

\* the dict that line 255 (575) creates and the merges rebuild
ParamObj == 0

\* the copy that line 280 (595) makes
InitObj == 1

\* a mapping the caller builds and assigns to the param_dict attribute
CallerObj == 2

Objs == {ParamObj, InitObj, CallerObj}

NoVisits == [meta |-> <<>>, params |-> <<>>, bind |-> <<>>, halos |-> <<>>]

NewInstance ==
    [input_model_blueprint |-> <<>>,
     model_blueprint |-> <<>>,
     galprop_list |-> <<>>,
     galprop_list_is_sequence |-> FALSE,
     gal_types |-> <<>>,
     occupation_bound |-> EmptyDict,
     haloprop_list |-> {},
     publications |-> {},
     prof_param_keys |-> {},
     new_haloprop_func_dict |-> [is_dict |-> TRUE, items |-> {}],
     behaviors |-> EmptyDict,
     param_dict |-> NoObj,
     init_param_dict |-> NoObj,
     pd |-> EmptyDict,
     raised |-> NoErr,
     visits |-> NoVisits]

\* ModelFactory.__init__, line 53: the instance refers to the caller's dict
ModelFactoryInit(input_model_blueprint) ==
    [NewInstance EXCEPT !.input_model_blueprint = input_model_blueprint]

\* self.model_blueprint = <the pair b that the interpretation of the blueprint
\* returns>: the instance has its own blueprint, and the caller's dict is as
\* the interpretation left it
BindModelBlueprint(m, b) ==
    [m EXCEPT !.model_blueprint = b.own, !.input_model_blueprint = b.original]

Raise(m, kind, keys) == [m EXCEPT !.raised = Err(kind, keys)]

Ok(m) == m.raised.kind = "none"

-----------------------------------------------------------------------------
(* ModelFactory.populate_mock.  The state mk of the mock side is the mock      *)
(* attribute (attr: NoObj while the instance has none, else the mock object),  *)
(* the factory that made it, and counts of what has been asked of the          *)
(* collaborators: calls of the mock factory, ProcessedSnapshot objects built,  *)
(* calls of the mock's populate().                                             *)

\* the keyword arguments ProcessedSnapshot.__init__ takes (read_nbody.py,
\* lines 102-104)
SnapshotKeywords == {"simname", "halo_finder", "redshift"}

\* lines 85-87: the mock factory of the model's blueprint is called and its
\* result is bound as self.mock.  The factory is the collaborator of the
\* specification: it returns a new mock object.
BuildMock(m, mk) ==
    [mk EXCEPT !.attr = mk.factory_calls + 1,
               !.factory = Lookup(m.model_blueprint, "mock_factory").galprop_key,
               !.factory_calls = @ + 1,
               !.outcome = "built"]

\* a populate_mock that builds a mock whether or not one is bound
PopulateMockRebuilding(m, mk, kwargs, in_cache) ==
    IF "snapshot" \in kwargs
    THEN BuildMock(m, mk)
    ELSE IF ~(kwargs \subseteq SnapshotKeywords)
    THEN [mk EXCEPT !.outcome = "TypeError"]
    ELSE IF ~in_cache
    THEN [mk EXCEPT !.outcome = "IOError"]
    ELSE BuildMock(m, [mk EXCEPT !.snapshots = @ + 1])

\* lines 85-87 with a mock factory that may raise (factory_raises): the
\* exception leaves line 86, and line 87 does not run
BuildMockWith(m, mk, factory_raises) ==
    IF factory_raises
    THEN [mk EXCEPT !.factory = Lookup(m.model_blueprint, "mock_factory").galprop_key,
                    !.factory_calls = @ + 1,
                    !.outcome = "FactoryError"]
    ELSE BuildMock(m, mk)

\* a populate_mock that binds the mock attribute before the snapshot and the
\* mock are made
PopulateMockBindingFirst(m, mk, kwargs, in_cache, factory_raises) ==
    IF mk.attr # NoObj
    THEN [mk EXCEPT !.populate_calls = @ + 1, !.outcome = "populated"]
    ELSE LET bound == [mk EXCEPT !.attr = mk.factory_calls + 1]
         IN  IF "snapshot" \in kwargs
             THEN BuildMockWith(m, bound, factory_raises)
             ELSE IF ~(kwargs \subseteq SnapshotKeywords)
             THEN [bound EXCEPT !.outcome = "TypeError"]
             ELSE IF ~in_cache
             THEN [bound EXCEPT !.outcome = "IOError"]
             ELSE BuildMockWith(m, [bound EXCEPT !.snapshots = @ + 1], factory_raises)

\* populate_mock(**kwargs), lines 73-87, for the keywords kwargs.
\* ProcessedSnapshot(**kwargs) raises TypeError for a keyword it does not
\* take, and IOError when the cache holds no processed catalogue (in_cache is
\* FALSE; read_nbody.py, line 115).  None of these exceptions is caught.
PopulateMockWith(m, mk, kwargs, in_cache, factory_raises) ==
    IF mk.attr # NoObj
    THEN [mk EXCEPT !.populate_calls = @ + 1, !.outcome = "populated"]
    ELSE IF "snapshot" \in kwargs
    THEN BuildMockWith(m, mk, factory_raises)
    ELSE IF ~(kwargs \subseteq SnapshotKeywords)
    THEN [mk EXCEPT !.outcome = "TypeError"]
    ELSE IF ~in_cache
    THEN [mk EXCEPT !.outcome = "IOError"]
    ELSE BuildMockWith(m, [mk EXCEPT !.snapshots = @ + 1], factory_raises)

\* populate_mock(**kwargs) with a mock factory that keeps its contract: it
\* returns a mock object
PopulateMockOf(m, mk, kwargs, in_cache) ==
    PopulateMockWith(m, mk, kwargs, in_cache, FALSE)

-----------------------------------------------------------------------------
(* SubhaloModelFactory *)

\* the default of line 150
SubhaloMockFactory == MockFactory("SubhaloMockFactory")

\* _interpret_input_model_blueprint: a shallow copy, with the default mock
\* factory under the literal key when the caller's blueprint has no such key
SubhaloInterpretInputModelBlueprint(input_model_blueprint) ==
    LET model_blueprint == Copy(input_model_blueprint)
    IN  IF ~HasKey(model_blueprint.own, "mock_factory")
        THEN SetItem(model_blueprint, Entry("mock_factory", TRUE, SubhaloMockFactory))
        ELSE model_blueprint

\* line 190
UnorderedGalpropList(model_blueprint) ==
    Keys(SelectSeq(model_blueprint, IsNotMockFactory))

\* lines 217-230, on the aggregate agg (new_haloprop_func_dict so far).  The
\* aggregate starts as a dict and line 222 rebinds it to a list of (key,
\* function) pairs: from then on set(agg) is a set of pairs, which shares
\* nothing with a set of keys, and agg.items() raises AttributeError.
MergeNewHalopropFuncDict(m, funcs) ==
    LET agg == m.new_haloprop_func_dict
        dict_intersection ==
            IF agg.is_dict THEN {p[1] : p \in agg.items} \cap DOMAIN funcs ELSE {}
    IN  IF dict_intersection = {}
        THEN IF agg.is_dict
             THEN [m EXCEPT !.new_haloprop_func_dict =
                      [is_dict |-> FALSE,
                       items |-> agg.items \cup {<<k, funcs[k]>> : k \in DOMAIN funcs}]]
             ELSE Raise(m, "AttributeError", {"items"})
        ELSE Raise(m, "DuplicateAuxiliaryFunctionKey", dict_intersection)

\* lines 205-230: one pass of the loop of _build_composite_lists
CompositeListsOf(m, component_model) ==
    LET meta == component_model.meta
        m1 == [m EXCEPT
                 !.haloprop_list = @ \cup (IF meta.has_prim THEN {meta.prim} ELSE {})
                                     \cup (IF meta.has_sec THEN {meta.sec} ELSE {}),
                 !.publications = @ \cup (IF meta.has_publications
                                          THEN meta.publications ELSE {})]
    IN  IF meta.has_new_haloprop_func_dict
        THEN MergeNewHalopropFuncDict(m1, meta.new_haloprop_func_dict)
        ELSE m1

RECURSIVE SubhaloCompositeLoop(_, _, _)
\* lines 204-230: for galprop in self.galprop_list, from position i of order
SubhaloCompositeLoop(m, order, i) ==
    IF i > Len(order) \/ ~Ok(m) THEN m
    ELSE SubhaloCompositeLoop(
            CompositeListsOf(
                [m EXCEPT !.visits.meta = Append(@, order[i])],
                Lookup(m.model_blueprint, order[i])),
            order, i + 1)

\* a _build_composite_lists that checks the galprop_sequence and then keeps the
\* blueprint's own order
SubhaloBuildCompositeListsUnordered(m, seq) ==
    LET unordered_galprop_list == UnorderedGalpropList(m.model_blueprint)
    IN  IF seq.given /\ Range(seq.list) # Range(unordered_galprop_list)
        THEN Raise(m, "OrderingMismatch", {})
        ELSE LET m1 == [m EXCEPT !.galprop_list = unordered_galprop_list]
             IN  SubhaloCompositeLoop(m1, m1.galprop_list, 1)

\* _build_composite_lists(**kwargs), lines 190-234
SubhaloBuildCompositeLists(m, seq) ==
    LET unordered_galprop_list == UnorderedGalpropList(m.model_blueprint)
    IN  IF seq.given /\ Range(seq.list) # Range(unordered_galprop_list)
        THEN Raise(m, "OrderingMismatch", {})
        ELSE LET m1 == [m EXCEPT !.galprop_list =
                          IF seq.given THEN seq.list ELSE unordered_galprop_list,
                                 !.galprop_list_is_sequence = seq.given]
             IN  SubhaloCompositeLoop(m1, m1.galprop_list, 1)

\* a merge that namespaces the keys of the component's own param_dict, in the
\* component
SubhaloMergeParamsInPlace(m, galprop_model) ==
    LET galprop_model_param_dict ==
            IF galprop_model.has_param_dict
            THEN Namespaced(galprop_model.galprop_key, galprop_model.param_dict)
            ELSE EmptyDict
        intersection == DOMAIN m.pd \cap DOMAIN galprop_model_param_dict
    IN  IF intersection # {}
        THEN Raise(m, "DuplicateParameterKey", intersection)
        ELSE [m EXCEPT !.pd = DictOfItems(galprop_model_param_dict, m.pd),
                       !.model_blueprint =
                          [i \in DOMAIN @ |->
                             IF @[i].value = galprop_model
                             THEN [@[i] EXCEPT !.value.param_dict = galprop_model_param_dict]
                             ELSE @[i]]]

\* lines 259-278: one pass of the loop of _set_init_param_dict
SubhaloMergeParams(m, galprop_model) ==
    LET galprop_model_param_dict ==
            IF galprop_model.has_param_dict
            THEN Namespaced(galprop_model.galprop_key, galprop_model.param_dict)
            ELSE EmptyDict
        intersection == DOMAIN m.pd \cap DOMAIN galprop_model_param_dict
    IN  IF intersection # {}
        THEN Raise(m, "DuplicateParameterKey", intersection)
        ELSE [m EXCEPT !.pd = DictOfItems(galprop_model_param_dict, m.pd)]

RECURSIVE SubhaloParamLoop(_, _, _)
\* lines 258-278: for galprop in self.galprop_list, from position i of order
SubhaloParamLoop(m, order, i) ==
    IF i > Len(order) \/ ~Ok(m) THEN m
    ELSE SubhaloParamLoop(
            SubhaloMergeParams(
                [m EXCEPT !.visits.params = Append(@, order[i])],
                Lookup(m.model_blueprint, order[i])),
            order, i + 1)

\* _set_init_param_dict, lines 255-280 (the copy of line 280 is made by the
\* action, which places the dicts in the heap)
SubhaloSetInitParamDict(m) ==
    LET m1 == SubhaloParamLoop([m EXCEPT !.pd = EmptyDict, !.param_dict = ParamObj],
                               m.galprop_list, 1)
    IN  IF Ok(m1) THEN [m1 EXCEPT !.init_param_dict = InitObj] ELSE m1

\* partial(self._galprop_func, galprop_key).  A behaviour is an object: made_at
\* is the line of the source that made it, and two names bound to the object
\* one statement made once hold the same object.
GalpropBehavior(galprop_key) ==
    [func |-> "_galprop_func", arg |-> galprop_key, owner |-> "self", ref |-> NoObj,
     made_at |-> 173]

RECURSIVE SubhaloBindLoop(_, _, _)
\* lines 170-174: for galprop_key in self.galprop_list, from position i of order
SubhaloBindLoop(m, order, i) ==
    IF i > Len(order) THEN m
    ELSE SubhaloBindLoop(
            [m EXCEPT !.visits.bind = Append(@, order[i]),
                      !.behaviors = (("mc_" \o order[i]) :> GalpropBehavior(order[i])) @@ @],
            order, i + 1)

\* _set_primary_behaviors, lines 170-174
SubhaloSetPrimaryBehaviors(m) == SubhaloBindLoop(m, m.galprop_list, 1)

\* a reset that also goes back to the blueprint's own order of slots
SubhaloRestoreReordering(m) ==
    SubhaloSetPrimaryBehaviors(
        [m EXCEPT !.param_dict = m.init_param_dict,
                  !.galprop_list = UnorderedGalpropList(m.model_blueprint),
                  !.visits.bind = <<>>])

\* a reset that exchanges the live dict and the snapshot
SubhaloRestoreSwapping(m) ==
    SubhaloSetPrimaryBehaviors(
        [m EXCEPT !.param_dict = m.init_param_dict,
                  !.init_param_dict = m.param_dict,
                  !.visits.bind = <<>>])

\* restore_init_param_dict, lines 307-308, on the instance m: param_dict
\* refers to the snapshot object, and the behaviours are bound again
SubhaloRestoreInitParamDict(m) ==
    SubhaloSetPrimaryBehaviors(
        [m EXCEPT !.param_dict = m.init_param_dict, !.visits.bind = <<>>])

\* a constructor that binds the behaviours before it merges the parameters
SubhaloInitBindingFirst(input_model_blueprint, seq) ==
    LET m0 == BindModelBlueprint(
                  ModelFactoryInit(input_model_blueprint),
                  SubhaloInterpretInputModelBlueprint(input_model_blueprint))
        m1 == SubhaloBuildCompositeLists(m0, seq)
        m2 == IF Ok(m1) THEN SubhaloSetPrimaryBehaviors(m1) ELSE m1
    IN  IF Ok(m2) THEN SubhaloSetInitParamDict(m2) ELSE m2

\* SubhaloModelFactory.__init__, lines 134-142: each step runs only if none
\* before it raised
SubhaloInit(input_model_blueprint, seq) ==
    LET m0 == BindModelBlueprint(
                  ModelFactoryInit(input_model_blueprint),
                  SubhaloInterpretInputModelBlueprint(input_model_blueprint))
        m1 == SubhaloBuildCompositeLists(m0, seq)
        m2 == IF Ok(m1) THEN SubhaloSetInitParamDict(m1) ELSE m1
    IN  IF Ok(m2) THEN SubhaloSetPrimaryBehaviors(m2) ELSE m2

\* _get_stripped_param_dict(galprop), lines 286-297, on the value pd of the dict
\* self.param_dict refers to: the composite key is built from the slot key.
\* A missing composite key raises KeyError.
StrippedParamDict(m, pd, galprop) ==
    LET galprop_model == Lookup(m.model_blueprint, galprop)
        galprop_model_param_keys ==
            IF galprop_model.has_param_dict THEN DOMAIN galprop_model.param_dict ELSE {}
        missing == {key \in galprop_model_param_keys : galprop \o "_" \o key \notin DOMAIN pd}
    IN  IF missing # {}
        THEN [raised |-> Err("KeyError", {galprop \o "_" \o key : key \in missing}),
              output |-> EmptyDict]
        ELSE [raised |-> NoErr,
              output |-> [key \in galprop_model_param_keys |-> pd[galprop \o "_" \o key]]]

NoCall ==
    [name |-> "", outcome |-> "none", target |-> "", method |-> "", kwargs |-> "",
     input_param_dict |-> EmptyDict, live |-> EmptyDict,
     sample |-> <<>>, output |-> <<>>]

\* _galprop_func(galprop_key, **kwargs), lines 179-183, when param_dict refers
\* to a dict of value pd: what the component model's method receives.  A mock
\* factory, which the identity test let through as a slot, has no such method.
GalpropFunc(m, pd, name, galprop_key, kwargs) ==
    LET component_model == Lookup(m.model_blueprint, galprop_key)
        current_galprop_param_dict == StrippedParamDict(m, pd, galprop_key)
        call == [NoCall EXCEPT !.name = name, !.kwargs = kwargs, !.live = pd,
                               !.target = component_model.galprop_key]
    IN  IF current_galprop_param_dict.raised.kind # "none"
        THEN [call EXCEPT !.outcome = "KeyError"]
        ELSE IF component_model.kind = "factory"
        THEN [call EXCEPT !.outcome = "AttributeError"]
        ELSE [call EXCEPT !.outcome = "returned",
                          !.method = "mc_" \o galprop_key,
                          !.input_param_dict = current_galprop_param_dict.output]

-----------------------------------------------------------------------------
(* HodModelFactory *)

\* the default of line 403
HodMockFactory == MockFactory("HodMockFactory")

\* d[feature] for the features dict d of a galaxy type
Feature(d, feature) == d.items[CHOOSE i \in DOMAIN d.items : d.items[i].key = feature].value

\* a sort that leaves the keys as they are
Unsorted(keys, bound) == keys

RECURSIVE StableSorted(_, _)
\* the entries of the sequence keys, by ascending bound[key]; entries with the
\* same bound keep their order (np.argsort of at most 16 values is an
\* insertion sort)
StableSorted(keys, bound) ==
    IF keys = <<>> THEN <<>>
    ELSE LET least == CHOOSE i \in DOMAIN keys :
                        /\ \A j \in DOMAIN keys : bound[keys[i]] <= bound[keys[j]]
                        /\ \A j \in 1..(i - 1) : bound[keys[j]] # bound[keys[i]]
             rest == [j \in 1..(Len(keys) - 1) |->
                        IF j < least THEN keys[j] ELSE keys[j + 1]]
         IN  <<keys[least]>> \o StableSorted(rest, bound)

\* _set_gal_types, lines 415-430.  Indexing a mock factory, which the identity
\* test let through as a galaxy type, raises TypeError.
SetGalTypes(m, input_model_blueprint) ==
    LET gal_types == Keys(SelectSeq(input_model_blueprint, IsNotMockFactory))
        bad == {i \in DOMAIN gal_types :
                  Lookup(input_model_blueprint, gal_types[i]).kind = "factory"}
        occupation_bound ==
            [gal_type \in Range(gal_types) |->
               Feature(Lookup(input_model_blueprint, gal_type), "occupation").occupation_bound]
    IN  IF bad # {}
        THEN Raise(m, "TypeError", {})
        ELSE [m EXCEPT !.gal_types = StableSorted(gal_types, occupation_bound),
                       !.occupation_bound = occupation_bound]

\* interpret_input_model_blueprint, lines 394-405: a shallow copy (the wrapping
\* of lines 397-400 is commented out), with the default mock factory under the
\* literal key when the caller's blueprint has no such key
HodInterpretInputModelBlueprint(input_model_blueprint) ==
    LET model_blueprint == Copy(input_model_blueprint)
    IN  IF ~HasKey(model_blueprint.own, "mock_factory")
        THEN SetItem(model_blueprint, Entry("mock_factory", TRUE, HodMockFactory))
        ELSE model_blueprint

\* a merge of the typed variant that namespaces as the flat variant does
HodMergeParamsNamespacing(m, model_instance) ==
    IF ~model_instance.has_param_dict
    THEN Raise(m, "AttributeError", {"param_dict"})
    ELSE LET namespaced == Namespaced(model_instance.id, model_instance.param_dict)
             intersection == DOMAIN m.pd \cap DOMAIN namespaced
         IN  IF intersection # {}
             THEN Raise(m, "DuplicateParameterKey", intersection)
             ELSE [m EXCEPT !.pd = DictOfItems(namespaced, m.pd)]

\* lines 583-593: one pass of the inner loop of _set_init_param_dict.  The
\* component's param_dict is read with no hasattr test, and its keys are merged
\* as they are.
HodMergeParams(m, model_instance) ==
    IF ~model_instance.has_param_dict
    THEN Raise(m, "AttributeError", {"param_dict"})
    ELSE LET intersection == DOMAIN m.pd \cap DOMAIN model_instance.param_dict
         IN  IF intersection # {}
             THEN Raise(m, "DuplicateParameterKey", intersection)
             ELSE [m EXCEPT !.pd = DictOfItems(model_instance.param_dict, m.pd)]

RECURSIVE HodFeatureParamLoop(_, _, _)
\* lines 581-593: for model_instance in gal_type_dict.values(), from position j
HodFeatureParamLoop(m, gal_type_dict, j) ==
    IF j > Len(gal_type_dict) \/ ~Ok(m) THEN m
    ELSE HodFeatureParamLoop(HodMergeParams(m, gal_type_dict[j].value), gal_type_dict, j + 1)

RECURSIVE HodParamLoop(_, _)
\* lines 578-593: for gal_type in self.gal_types, from position i
HodParamLoop(m, i) ==
    IF i > Len(m.gal_types) \/ ~Ok(m) THEN m
    ELSE HodParamLoop(
            HodFeatureParamLoop(
                [m EXCEPT !.visits.params = Append(@, m.gal_types[i])],
                Lookup(m.model_blueprint, m.gal_types[i]).items, 1),
            i + 1)

\* HodModelFactory._set_init_param_dict, lines 575-595
HodSetInitParamDict(m) ==
    LET m1 == HodParamLoop([m EXCEPT !.pd = EmptyDict, !.param_dict = ParamObj], 1)
    IN  IF Ok(m1) THEN [m1 EXCEPT !.init_param_dict = InitObj] ELSE m1

\* lines 621-650: one pass of the inner loop of _build_composite_lists
HodCompositeListsOf(m, component_model) ==
    CompositeListsOf(
        [m EXCEPT !.prof_param_keys =
            @ \cup (IF component_model.has_prof_param_keys
                    THEN Range(component_model.prof_param_keys) ELSE {})],
        component_model)

RECURSIVE HodFeatureCompositeLoop(_, _, _)
\* lines 620-650: for component_key in component_dict.keys(), from position j
HodFeatureCompositeLoop(m, component_dict, j) ==
    IF j > Len(component_dict) \/ ~Ok(m) THEN m
    ELSE HodFeatureCompositeLoop(HodCompositeListsOf(m, component_dict[j].value),
                                 component_dict, j + 1)

RECURSIVE HodCompositeLoop(_, _)
\* lines 618-650: for gal_type in self.gal_types, from position i
HodCompositeLoop(m, i) ==
    IF i > Len(m.gal_types) \/ ~Ok(m) THEN m
    ELSE HodCompositeLoop(
            HodFeatureCompositeLoop(
                [m EXCEPT !.visits.meta = Append(@, m.gal_types[i])],
                Lookup(m.model_blueprint, m.gal_types[i]).items, 1),
            i + 1)

\* HodModelFactory._build_composite_lists, lines 613-655
HodBuildCompositeLists(m) == HodCompositeLoop(m, 1)

\* setattr(self, name, behavior)
SetAttr(m, name, behavior) == [m EXCEPT !.behaviors = (name :> behavior) @@ @]

\* hasattr(self, name), for the name of a behaviour
HasAttr(m, name) == name \in DOMAIN m.behaviors

\* partial(occupation_model.<func>, input_param_dict = self.param_dict): the
\* partial holds the dict object that self.param_dict refers to now
OccupationBehavior(m, occupation_model, func) ==
    [func |-> func, arg |-> "", owner |-> occupation_model.id, ref |-> m.param_dict,
     made_at |-> IF func = "mc_occupation" THEN 454 ELSE 462]

\* getattr(model, prof_param_key) at line `line`: a bound method of the object
\* `owner`
Accessor(owner, prof_param_key, line) ==
    [func |-> prof_param_key, arg |-> "", owner |-> owner, ref |-> NoObj,
     made_at |-> line]

\* lines 475-476: <key>_halos is bound to the accessor of the halo profile
\* model of gal_prof_model, the profile model of gal_type
BindHalos(m, gal_type, gal_prof_model, prof_param_key) ==
    [SetAttr(m, prof_param_key \o "_halos",
             Accessor(gal_prof_model.id \o ".halo_prof_model", prof_param_key, 475))
       EXCEPT !.visits.halos = Append(@, <<prof_param_key, gal_type>>)]

RECURSIVE HodProfParamLoopReplacing(_, _, _, _)
\* a loop that binds <key>_halos for every type that declares the key
HodProfParamLoopReplacing(m, gal_type, gal_prof_model, j) ==
    IF j > Len(gal_prof_model.prof_param_keys) THEN m
    ELSE LET prof_param_key == gal_prof_model.prof_param_keys[j]
             m1 == BindHalos(m, gal_type, gal_prof_model, prof_param_key)
             m2 == SetAttr(m1, prof_param_key \o "_" \o gal_type,
                           Accessor(gal_prof_model.id, prof_param_key, 479))
         IN  HodProfParamLoopReplacing(m2, gal_type, gal_prof_model, j + 1)

RECURSIVE HodProfParamLoop(_, _, _, _)
\* lines 471-480: for prof_param_key in gal_prof_model.prof_param_keys, from
\* position j
HodProfParamLoop(m, gal_type, gal_prof_model, j) ==
    IF j > Len(gal_prof_model.prof_param_keys) THEN m
    ELSE LET prof_param_key == gal_prof_model.prof_param_keys[j]
             m1 == IF ~HasAttr(m, prof_param_key \o "_halos")
                   THEN BindHalos(m, gal_type, gal_prof_model, prof_param_key)
                   ELSE m
             m2 == SetAttr(m1, prof_param_key \o "_" \o gal_type,
                           Accessor(gal_prof_model.id, prof_param_key, 479))
         IN  HodProfParamLoop(m2, gal_type, gal_prof_model, j + 1)

\* lines 452-486: one pass of the first loop of _set_primary_behaviors
HodBindGalType(m, gal_type) ==
    LET occupation_model == Feature(Lookup(m.model_blueprint, gal_type), "occupation")
        m1 == SetAttr(m, "mc_occupation_" \o gal_type,
                      OccupationBehavior(m, occupation_model, "mc_occupation"))
        m2 == IF occupation_model.has_mean_occupation
              THEN SetAttr(m1, "mean_occupation_" \o gal_type,
                           OccupationBehavior(m, occupation_model, "mean_occupation"))
              ELSE m1
        gal_prof_model == Feature(Lookup(m.model_blueprint, gal_type), "profile")
        m3 == HodProfParamLoop(m2, gal_type, gal_prof_model, 1)
    IN  SetAttr(m3, "pos_" \o gal_type,
                [func |-> "mc_pos", arg |-> gal_type, owner |-> "self", ref |-> NoObj,
                 made_at |-> 485])

RECURSIVE HodBindLoop(_, _)
\* lines 448-486: for gal_type in self.gal_types, from position i
HodBindLoop(m, i) ==
    IF i > Len(m.gal_types) THEN m
    ELSE HodBindLoop(
            HodBindGalType([m EXCEPT !.visits.bind = Append(@, m.gal_types[i])],
                           m.gal_types[i]),
            i + 1)

\* a final pass that binds, for a type without an accessor of its own, a new
\* object that does what the shared accessor does
HodFallbackPassCopying(m) ==
    LET lacking == {prof_param_key \in m.prof_param_keys :
                      /\ ~HasAttr(m, prof_param_key \o "_halos")
                      /\ \E i \in DOMAIN m.gal_types :
                            ~HasAttr(m, prof_param_key \o "_" \o m.gal_types[i])}
        fallback == {<<prof_param_key, m.gal_types[i]>> :
                        prof_param_key \in m.prof_param_keys, i \in DOMAIN m.gal_types}
        new == {pair \in fallback : ~HasAttr(m, pair[1] \o "_" \o pair[2])}
        names == {pair[1] \o "_" \o pair[2] : pair \in new}
        key_of(name) == (CHOOSE pair \in new : pair[1] \o "_" \o pair[2] = name)[1]
    IN  IF lacking # {}
        THEN Raise(m, "AttributeError", {k \o "_halos" : k \in lacking})
        ELSE [m EXCEPT !.behaviors =
                 [name \in names |->
                    [m.behaviors[key_of(name) \o "_halos"] EXCEPT !.made_at = 493]] @@ @]

\* lines 488-494: the final pass, over the pairs (prof_param_key, gal_type) that
\* have no accessor yet.  getattr(self, <key>_halos) raises AttributeError when
\* no profile model declared the key.
HodFallbackPass(m) ==
    LET lacking == {prof_param_key \in m.prof_param_keys :
                      /\ ~HasAttr(m, prof_param_key \o "_halos")
                      /\ \E i \in DOMAIN m.gal_types :
                            ~HasAttr(m, prof_param_key \o "_" \o m.gal_types[i])}
        fallback == {<<prof_param_key, m.gal_types[i]>> :
                        prof_param_key \in m.prof_param_keys, i \in DOMAIN m.gal_types}
        new == {pair \in fallback : ~HasAttr(m, pair[1] \o "_" \o pair[2])}
        names == {pair[1] \o "_" \o pair[2] : pair \in new}
        key_of(name) == (CHOOSE pair \in new : pair[1] \o "_" \o pair[2] = name)[1]
    IN  IF lacking # {}
        THEN Raise(m, "AttributeError", {k \o "_halos" : k \in lacking})
        ELSE [m EXCEPT !.behaviors =
                 [name \in names |-> m.behaviors[key_of(name) \o "_halos"]] @@ @]

\* HodModelFactory._set_primary_behaviors, lines 448-494
HodSetPrimaryBehaviors(m) == HodFallbackPass(HodBindLoop(m, 1))

\* restore_init_param_dict, lines 604-605, on the instance m: param_dict
\* refers to the snapshot object, and the behaviours are bound again
HodRestoreInitParamDict(m) ==
    HodSetPrimaryBehaviors(
        [m EXCEPT !.param_dict = m.init_param_dict,
                  !.visits.bind = <<>>, !.visits.halos = <<>>])

\* HodModelFactory.__init__, lines 355-370: each step runs only if none before
\* it raised
HodInit(input_model_blueprint) ==
    LET m0 == SetGalTypes(ModelFactoryInit(input_model_blueprint), input_model_blueprint)
        m1 == IF Ok(m0)
              THEN BindModelBlueprint(m0, HodInterpretInputModelBlueprint(input_model_blueprint))
              ELSE m0
        m2 == IF Ok(m1) THEN HodSetInitParamDict(m1) ELSE m1
        m3 == IF Ok(m2) THEN HodBuildCompositeLists(m2) ELSE m2
    IN  IF Ok(m3) THEN HodSetPrimaryBehaviors(m3) ELSE m3

\* a bound mc_occupation_<type> or mean_occupation_<type> is called with
\* **kwargs: the occupation model receives the dict the partial holds (of value
\* bound_pd), while self.param_dict refers to a dict of value pd
OccupationCall(m, bound_pd, pd, name, kwargs) ==
    [NoCall EXCEPT !.name = name, !.kwargs = kwargs, !.live = pd,
                   !.outcome = "returned",
                   !.target = m.behaviors[name].owner,
                   !.method = m.behaviors[name].func,
                   !.input_param_dict = bound_pd]

-----------------------------------------------------------------------------
(* Numbers.  The positions are computed in exact arithmetic: a number is a     *)
(* fraction num/den in lowest terms with den > 0.  (The source computes in     *)
(* binary floating point, whose rounding is not followed.)                     *)

Abs(n) == IF n < 0 THEN 0 - n ELSE n

RECURSIVE Gcd(_, _)
Gcd(a, b) == IF b = 0 THEN a ELSE Gcd(b, a % b)

\* the fraction n/d, d # 0
Rat(n, d) ==
    LET g == Gcd(Abs(n), Abs(d))
        sign == IF d < 0 THEN 0 - 1 ELSE 1
    IN  [num |-> (sign * n) \div g, den |-> (sign * d) \div g]

Whole(n) == Rat(n, 1)

RatMul(p, q) == Rat(p.num * q.num, p.den * q.den)

RatAdd(p, q) == Rat(p.num * q.den + q.num * p.den, p.den * q.den)

\* a column that is not re-scaled
NotRescaled(column) == column

\* column/1000., element by element
Over1000(column) == [i \in DOMAIN column |-> RatMul(column[i], Rat(1, 1000))]

\* x *= column, element by element
TimesEquals(x, column) == [i \in DOMAIN x |-> RatMul(x[i], column[i])]

\* x += column, element by element
PlusEquals(x, column) == [i \in DOMAIN x |-> RatAdd(x[i], column[i])]

\* mc_pos(galaxy_table = ..., gal_type = ...), lines 524-543.  sample is what
\* the profile model's mc_pos returned for the table (line 527): three arrays,
\* one entry each per row.  The table has the column of the halo boundary the
\* profile model names (line 530) and the columns of the host halo's position.
HodMcPos(galaxy_table, sample) ==
    LET x == PlusEquals(TimesEquals(sample[1], Over1000(galaxy_table.boundary)),
                        galaxy_table.x)
        y == PlusEquals(TimesEquals(sample[2], Over1000(galaxy_table.boundary)),
                        galaxy_table.y)
        z == PlusEquals(TimesEquals(sample[3], Over1000(galaxy_table.boundary)),
                        galaxy_table.z)
    IN  <<x, y, z>>

\* a bound pos_<type> is called with galaxy_table = ...: the partial of line
\* 485 adds gal_type, and mc_pos asks the profile model of that type
PosCall(m, name, galaxy_table, sample) ==
    LET gal_type == m.behaviors[name].arg
        gal_prof_model == Feature(Lookup(m.model_blueprint, gal_type), "profile")
    IN  [NoCall EXCEPT !.name = name, !.outcome = "returned",
                       !.target = gal_prof_model.id, !.method = "mc_pos",
                       !.kwargs = galaxy_table, !.sample = sample,
                       !.output = HodMcPos(galaxy_table, sample)]

-----------------------------------------------------------------------------
(* The caller's inputs of the flat variant *)

SlotKeys == {"a", "b"}

\* component models: two that name themselves after their slot, one whose
\* identity contains the separator, two that share the identity "a", and one
\* with no param_dict
GalpropModels ==
    { GalpropModel("a", TRUE, "c" :> 1,
                   Meta("mvir", "", {"p1"}, "f" :> "fA")),
      GalpropModel("b", TRUE, "d" :> 2,
                   MetaNoFuncs("mvir", "conc", {"p1", "p2"})),
      GalpropModel("a_b", TRUE, "c" :> 2,
                   Meta("vmax", "", {}, "g" :> "gAB")),
      GalpropModel("a", TRUE, "b_c" :> 1,
                   Meta("vmax", "", {"p3"}, "f" :> "fX")),
      GalpropModel("a", TRUE, "c" :> 2, NoMeta),
      GalpropModel("b", FALSE, EmptyDict, NoMeta) }

\* the caller's mock_factory entry: under the key object of the literal, or
\* under an equal key that is another object
UserMockEntries ==
    { Entry("mock_factory", identical, MockFactory("UserMockFactory")) :
        identical \in BOOLEAN }

\* flat blueprints, in keys() order: one or two slots, and possibly the caller's
\* own mock_factory entry
FlatBlueprints ==
    LET slots1 == { <<Entry(k, FALSE, c)>> : k \in SlotKeys, c \in GalpropModels }
        slots2 == { <<Entry(k1, FALSE, c1), Entry(k2, FALSE, c2)>> :
                      <<k1, c1, k2, c2>> \in
                        { t \in SlotKeys \X GalpropModels \X SlotKeys \X GalpropModels :
                            t[1] # t[3] } }
        slots == slots1 \cup slots2
    IN  slots \cup { Append(s, e) : s \in slots, e \in UserMockEntries }

NoSequence == [given |-> FALSE, list |-> <<>>]

\* the galprop_sequence arguments tried: permutations, a missing key, an extra
\* key, repeated keys
GalpropSequences ==
    { <<"a">>, <<"b">>, <<"a", "b">>, <<"b", "a">>, <<"a", "a">>,
      <<"a", "b", "a">>, <<"b", "b", "a">>, <<"a", "z">>, <<"a", "b", "z">> }

-----------------------------------------------------------------------------
(* The caller's inputs of the typed variant *)

GalTypes == {"cen", "sat"}

\* occupation models: with and without mean_occupation, one with no param_dict
OccupationModels ==
    { HodComponent(1, TRUE, "m" :> 1, TRUE, FALSE, <<>>,
                   Meta("mvir", "", {"p1"}, "f" :> "fA")),
      HodComponent(2, TRUE, "n" :> 2, FALSE, FALSE, <<>>,
                   MetaNoFuncs("mvir", "conc", {"p2"})),
      HodComponent(1, FALSE, EmptyDict, TRUE, FALSE, <<>>, NoMeta),
      HodComponent(2, TRUE, EmptyDict, TRUE, TRUE, <<"rs">>, NoMeta) }

\* profile models: declaring a profile parameter or none, one whose param_dict
\* shares a key with an occupation model
ProfileModels ==
    { HodComponent(0, TRUE, EmptyDict, FALSE, TRUE, <<"conc">>, NoMeta),
      HodComponent(0, TRUE, "m" :> 2, FALSE, TRUE, <<>>, NoMeta),
      HodComponent(0, TRUE, EmptyDict, FALSE, TRUE, <<"conc", "rs">>,
                   Meta("vmax", "", {"p1"}, "g" :> "gP")) }

\* the features dict of one galaxy type, in either keys() order
GalTypeDicts(gal_type) ==
    UNION { { GalTypeDict(<<Registered(gal_type, "occupation", occ),
                            Registered(gal_type, "profile", prof)>>),
              GalTypeDict(<<Registered(gal_type, "profile", prof),
                            Registered(gal_type, "occupation", occ)>>) } :
            occ \in OccupationModels, prof \in ProfileModels }

\* typed blueprints, in keys() order: one or two galaxy types, and possibly the
\* caller's own mock_factory entry
TypedBlueprints ==
    LET types1 == { <<Entry(t, FALSE, d)>> : <<t, d>> \in
                      UNION { {t} \X GalTypeDicts(t) : t \in GalTypes } }
        types2 == { s1 \o s2 : <<s1, s2>> \in
                      { p \in types1 \X types1 : p[1][1].key # p[2][1].key } }
        types == types1 \cup types2
    IN  types \cup { Append(s, e) : s \in types, e \in UserMockEntries }

\* a galaxy table has at most MaxRows rows
MaxRows == 2

\* a row of a galaxy table (the host halo's boundary radius and position)
\* with what the profile model's mc_pos draws for it (a halo-centric position
\* in units of the halo boundary)
RowsWithDraws ==
    { [boundary |-> Whole(200), x |-> Whole(10), y |-> Whole(20), z |-> Whole(30),
       draw |-> <<Rat(1, 10), Whole(0), Whole(0)>>],
      [boundary |-> Whole(200), x |-> Whole(10), y |-> Whole(20), z |-> Whole(30),
       draw |-> <<Rat(0 - 1, 2), Rat(1, 4), Whole(1)>>],
      [boundary |-> Whole(150), x |-> Whole(0), y |-> Whole(0 - 5), z |-> Rat(1, 2),
       draw |-> <<Rat(0 - 1, 2), Rat(1, 4), Whole(1)>>] }

\* the galaxy tables, by columns, each with what the profile model returns for
\* it: an array for x, one for y, one for z
PosInputs ==
    { [galaxy_table |->
          [boundary |-> [i \in DOMAIN rows |-> rows[i].boundary],
           x |-> [i \in DOMAIN rows |-> rows[i].x],
           y |-> [i \in DOMAIN rows |-> rows[i].y],
           z |-> [i \in DOMAIN rows |-> rows[i].z]],
       sample |->
          <<[i \in DOMAIN rows |-> rows[i].draw[1]],
            [i \in DOMAIN rows |-> rows[i].draw[2]],
            [i \in DOMAIN rows |-> rows[i].draw[3]]>>] :
        rows \in UNION { [1..n -> RowsWithDraws] : n \in 0..MaxRows } }

\* populate() is called at most MaxCalls times
MaxCalls == 2

\* the keyword arguments of populate_mock that are tried
PopulateKwargs == SUBSET {"snapshot", "simname", "num_ptcl_requirement"}

\* the orders in which a dict display can have written the slot (galaxy-type)
\* keys of the blueprint bp: a Python 2 dict keeps its keys in the order of
\* their hashes, and its keys() order says nothing of the order of writing
DeclarationOrders(bp) ==
    LET slot_keys == {bp[i].key : i \in {j \in DOMAIN bp : bp[j].key # "mock_factory"}}
    IN  {order \in [1..Cardinality(slot_keys) -> slot_keys] :
            \A i, j \in DOMAIN order : i # j => order[i] # order[j]}

\* the declaration order of a blueprint whose keys() order is the order in
\* which its keys were written
KeysOrder(bp) == Keys(SelectSeq(bp, LAMBDA e : e.key # "mock_factory"))

\* no mock attribute, and nothing asked of the collaborators yet
NoMock ==
    [attr |-> NoObj, factory |-> "", factory_calls |-> 0, snapshots |-> 0,
     populate_calls |-> 0, outcome |-> "none"]

-----------------------------------------------------------------------------
(* State machine *)

InitFlat ==
    /\ variant = "flat"
    /\ blueprint \in FlatBlueprints
    /\ declared = KeysOrder(blueprint)
    /\ galprop_sequence \in
         {NoSequence} \cup {[given |-> TRUE, list |-> s] : s \in GalpropSequences}
    /\ status = "new"
    /\ error = [kind |-> "none", key |-> ""]
    /\ self = NewInstance
    /\ heap = [o \in Objs |-> EmptyDict]
    /\ lastCall = NoCall
    /\ mock = NoMock

\* the objects something still refers to; the others are garbage
Referenced(m) ==
    {m.param_dict, m.init_param_dict} \cup {m.behaviors[n].ref : n \in DOMAIN m.behaviors}

Collect(h, m) == [o \in Objs |-> IF o \in Referenced(m) THEN h[o] ELSE EmptyDict]

\* the constructor has run on instance m: it returned, or raised m.raised with
\* one of the keys found (list(intersection)[0], of a set in arbitrary order).
\* The caller's dict is as the constructor left it.
Constructed(m) ==
    /\ status = "new"
    /\ status' = IF Ok(m) THEN "constructed" ELSE "failed"
    /\ \E key \in (IF m.raised.keys = {} THEN {""} ELSE m.raised.keys) :
          error' = [kind |-> m.raised.kind, key |-> key]
    /\ self' = [m EXCEPT !.pd = EmptyDict]
    /\ blueprint' = m.input_model_blueprint
    /\ heap' = [o \in Objs |->
                  IF o = m.param_dict THEN m.pd
                  ELSE IF o = m.init_param_dict THEN m.pd   \* copy(self.param_dict)
                  ELSE EmptyDict]
    /\ UNCHANGED <<variant, declared, galprop_sequence, lastCall, mock>>

\* model = SubhaloModelFactory(blueprint[, galprop_sequence = ...])
ConstructSubhalo ==
    /\ variant = "flat"
    /\ Constructed(SubhaloInit(blueprint, galprop_sequence))

\* model.param_dict[key] = val, by the caller
EditItem ==
    /\ status = "constructed"
    /\ \E key \in DOMAIN heap[self.param_dict], val \in Values :
          /\ heap[self.param_dict][key] # val
          /\ heap' = [heap EXCEPT ![self.param_dict][key] = val]
    /\ lastCall' = NoCall
    /\ UNCHANGED <<variant, blueprint, declared, galprop_sequence, mock, status, error, self>>

\* model.param_dict = {...}, by the caller: a new mapping with the same keys
ReplaceDict ==
    /\ status = "constructed"
    /\ \E new \in [DOMAIN heap[self.param_dict] -> Values] :
          LET m == [self EXCEPT !.param_dict = CallerObj]
          IN  /\ self' = m
              /\ heap' = Collect([heap EXCEPT ![CallerObj] = new], m)
    /\ lastCall' = NoCall
    /\ UNCHANGED <<variant, blueprint, declared, galprop_sequence, mock, status, error>>

\* SubhaloModelFactory.restore_init_param_dict, lines 307-308
RestoreSubhalo ==
    /\ status = "constructed"
    /\ variant = "flat"
    /\ LET m == SubhaloRestoreInitParamDict(self)
       IN  /\ self' = m
           /\ heap' = Collect(heap, m)
    /\ lastCall' = NoCall
    /\ UNCHANGED <<variant, blueprint, declared, galprop_sequence, mock, status, error>>

\* model.mc_<slot>(**kwargs), by the caller
CallGalprop ==
    /\ status = "constructed"
    /\ variant = "flat"
    /\ \E name \in DOMAIN self.behaviors, kwargs \in Tables :
          lastCall' = GalpropFunc(self, heap[self.param_dict], name,
                                  self.behaviors[name].arg, kwargs)
    /\ UNCHANGED <<variant, blueprint, declared, galprop_sequence, mock, status, error, self, heap>>

InitTyped ==
    /\ variant = "typed"
    /\ blueprint \in TypedBlueprints
    /\ declared = KeysOrder(blueprint)
    /\ galprop_sequence = NoSequence
    /\ status = "new"
    /\ error = [kind |-> "none", key |-> ""]
    /\ self = NewInstance
    /\ heap = [o \in Objs |-> EmptyDict]
    /\ lastCall = NoCall
    /\ mock = NoMock

\* model = HodModelFactory(blueprint)
ConstructHod ==
    /\ variant = "typed"
    /\ Constructed(HodInit(blueprint))

\* HodModelFactory.restore_init_param_dict, lines 604-605
RestoreHod ==
    /\ status = "constructed"
    /\ variant = "typed"
    /\ LET m == HodRestoreInitParamDict(self)
       IN  /\ self' = m
           /\ heap' = Collect(heap, m)
    /\ lastCall' = NoCall
    /\ UNCHANGED <<variant, blueprint, declared, galprop_sequence, mock, status, error>>

\* model.mc_occupation_<type>(**kwargs) or model.mean_occupation_<type>(**kwargs),
\* by the caller
CallOccupation ==
    /\ status = "constructed"
    /\ variant = "typed"
    /\ \E name \in DOMAIN self.behaviors, kwargs \in Tables :
          /\ self.behaviors[name].func \in {"mc_occupation", "mean_occupation"}
          /\ lastCall' = OccupationCall(self, heap[self.behaviors[name].ref],
                                        heap[self.param_dict], name, kwargs)
    /\ UNCHANGED <<variant, blueprint, declared, galprop_sequence, mock, status, error, self, heap>>

\* the typed variant, with a blueprint whose keys were written in any order
InitGalTypes ==
    /\ variant = "typed"
    /\ blueprint \in TypedBlueprints
    /\ declared \in DeclarationOrders(blueprint)
    /\ galprop_sequence = NoSequence
    /\ status = "new"
    /\ error = [kind |-> "none", key |-> ""]
    /\ self = NewInstance
    /\ heap = [o \in Objs |-> EmptyDict]
    /\ lastCall = NoCall
    /\ mock = NoMock

\* model.pos_<type>(galaxy_table = ...), by the mock factory
CallPos ==
    /\ status = "constructed"
    /\ variant = "typed"
    /\ \E name \in DOMAIN self.behaviors, input \in PosInputs :
          /\ self.behaviors[name].func = "mc_pos"
          /\ lastCall' = PosCall(self, name, input.galaxy_table, input.sample)
    /\ UNCHANGED <<variant, blueprint, declared, galprop_sequence, mock, status, error, self, heap>>

\* model.populate_mock(**kwargs), by the caller
PopulateMock ==
    /\ status = "constructed"
    /\ mock.populate_calls < MaxCalls
    /\ \E kwargs \in PopulateKwargs, in_cache \in BOOLEAN :
          mock' = PopulateMockOf(self, mock, kwargs, in_cache)
    /\ UNCHANGED <<variant, blueprint, declared, galprop_sequence, status, error,
                   self, heap, lastCall>>

\* model.populate_mock(**kwargs), by the caller, with a mock factory that may
\* raise; the factory is called at most MaxCalls times
PopulateMockUnreliable ==
    /\ status = "constructed"
    /\ mock.populate_calls < MaxCalls
    /\ mock.factory_calls < MaxCalls
    /\ \E kwargs \in PopulateKwargs, in_cache \in BOOLEAN, factory_raises \in BOOLEAN :
          mock' = PopulateMockWith(self, mock, kwargs, in_cache, factory_raises)
    /\ UNCHANGED <<variant, blueprint, declared, galprop_sequence, status, error,
                   self, heap, lastCall>>

\* s.reverse() or s.pop(), by the caller, on the list s that was passed as
\* galprop_sequence: what is written to the list is seen through every name
\* of it
MutateSequence ==
    /\ status = "constructed"
    /\ variant = "flat"
    /\ galprop_sequence.given
    /\ \E new \in {[i \in DOMAIN galprop_sequence.list |->
                       galprop_sequence.list[Len(galprop_sequence.list) + 1 - i]],
                   SubSeq(galprop_sequence.list, 1, Len(galprop_sequence.list) - 1)} :
          /\ new # galprop_sequence.list
          /\ galprop_sequence' = [galprop_sequence EXCEPT !.list = new]
          /\ self' = IF self.galprop_list_is_sequence
                     THEN [self EXCEPT !.galprop_list = new]
                     ELSE self
    /\ lastCall' = NoCall
    /\ UNCHANGED <<variant, blueprint, declared, mock, status, error, heap>>

NextFlat ==
    \/ ConstructSubhalo
    \/ EditItem
    \/ ReplaceDict
    \/ RestoreSubhalo
    \/ CallGalprop

SpecFlat == InitFlat /\ [][NextFlat]_vars

NextTyped ==
    \/ ConstructHod
    \/ EditItem
    \/ ReplaceDict
    \/ RestoreHod
    \/ CallOccupation

SpecTyped == InitTyped /\ [][NextTyped]_vars

\* construction of the typed variant alone, over every declaration order
SpecGalTypes == InitGalTypes /\ [][ConstructHod]_vars

Init == InitFlat \/ InitTyped

\* construction alone, of either variant
SpecConstruct == Init /\ [][ConstructSubhalo \/ ConstructHod]_vars

\* the blueprints that leave mock_factory to the default, built in the
\* blueprint's own order or in an order that is a permutation of its keys
InitReset ==
    /\ Init
    /\ ~HasKey(blueprint, "mock_factory")
    /\ galprop_sequence.given =>
          /\ Len(galprop_sequence.list) = Len(blueprint)
          /\ Range(galprop_sequence.list) = Range(Keys(blueprint))

NextReset ==
    \/ ConstructSubhalo
    \/ ConstructHod
    \/ EditItem
    \/ ReplaceDict
    \/ RestoreSubhalo
    \/ RestoreHod

\* either variant and its mock
SpecMock == Init /\ [][ConstructSubhalo \/ ConstructHod \/ PopulateMock]_vars

\* either variant and its mock, with a mock factory that may raise
SpecMockUnreliable ==
    Init /\ [][ConstructSubhalo \/ ConstructHod \/ PopulateMockUnreliable]_vars

\* the flat variant, its resets, and a caller who keeps the list passed as
\* galprop_sequence and the composite param_dict in use
NextSequence ==
    \/ ConstructSubhalo
    \/ EditItem
    \/ MutateSequence
    \/ RestoreSubhalo

SpecSequence == InitFlat /\ [][NextSequence]_vars

\* typed blueprints that leave mock_factory to the default and whose feature
\* dicts have occupation before profile in keys() order
InitPos ==
    /\ InitTyped
    /\ ~HasKey(blueprint, "mock_factory")
    /\ \A i \in DOMAIN blueprint : blueprint[i].value.items[1].key = "occupation"

\* the typed variant and its position generators
SpecPos == InitPos /\ [][ConstructHod \/ CallPos]_vars

\* the life of param_dict in either variant: construction, the caller's
\* assignments, resets
SpecReset == InitReset /\ [][NextReset]_vars

Next == NextFlat \/ NextTyped

\* either variant
Spec == Init /\ [][Next]_vars

\* the blueprints of InitReset, built in the blueprint's own order; the feature
\* dicts of a typed blueprint have occupation before profile in keys() order
InitLife ==
    /\ InitReset
    /\ ~galprop_sequence.given
    /\ variant = "typed" =>
          \A i \in DOMAIN blueprint : blueprint[i].value.items[1].key = "occupation"

\* the whole life of a model: construction, the caller's assignments, calls of
\* the bound behaviours, resets
SpecLife == InitLife /\ [][Next]_vars

-----------------------------------------------------------------------------
(* What the claims speak of *)

\* the slots (galaxy types) of a blueprint: its entries other than mock_factory
SlotsOf(bp) == SelectSeq(bp, LAMBDA e : e.key # "mock_factory")

\* the component models reachable from the caller's blueprint, each with the
\* composite keys the constructor derives from it
Contributions ==
    IF variant = "flat"
    THEN { [at |-> e.key, component |-> e.value,
            composite |-> IF e.value.has_param_dict
                          THEN {e.value.galprop_key \o "_" \o k : k \in DOMAIN e.value.param_dict}
                          ELSE {}] : e \in Range(SlotsOf(blueprint)) }
    ELSE { [at |-> f.value.id, component |-> f.value,
            composite |-> IF f.value.has_param_dict THEN DOMAIN f.value.param_dict ELSE {}] :
            f \in UNION { Range(e.value.items) : e \in Range(SlotsOf(blueprint)) } }

\* the composite keys that two component models both produce
CollidingKeys ==
    UNION { c1.composite \cap c2.composite :
              <<c1, c2>> \in {p \in Contributions \X Contributions : p[1].at # p[2].at} }

\* the galprop_sequence, if one is given, has the blueprint's slot keys, each once
SequenceMatches ==
    galprop_sequence.given =>
        /\ Range(galprop_sequence.list) = Range(Keys(SlotsOf(blueprint)))
        /\ Len(galprop_sequence.list) = Len(SlotsOf(blueprint))

\* the private keys of a component model
PrivateKeys(component) ==
    IF component.has_param_dict THEN DOMAIN component.param_dict ELSE {}

IsPrefix(s, t) == Len(s) <= Len(t) /\ \A i \in DOMAIN s : s[i] = t[i]

\* the value param_dict had when the constructor ended
ConstructionTimeParamDict ==
    IF variant = "flat" THEN SubhaloInit(blueprint, galprop_sequence).pd
    ELSE HodInit(blueprint).pd

\* the live parameter dictionary
ParamDict == heap[self.param_dict]

Restore == RestoreSubhalo \/ RestoreHod

-----------------------------------------------------------------------------
(* C1 *)

\* C1: every call to restore_init_param_dict, after any caller edits and
\* earlier resets, leaves param_dict with exactly the construction-time keys,
\* each at its construction-time value.
C1_RestoreGivesConstructionValues ==
    [][Restore => heap'[self'.param_dict] = ConstructionTimeParamDict]_vars

(* C2 *)

\* C2: in every state after construction the snapshot _init_param_dict holds
\* the keys and values param_dict had at the end of construction, and it is
\* never the same object as the live param_dict.
C2_SnapshotImmutable ==
    status = "constructed" =>
        /\ heap[self.init_param_dict] = ConstructionTimeParamDict
        /\ self.init_param_dict # self.param_dict

(* C3 *)

\* C3: whenever two component models of the blueprint produce the same
\* composite parameter key (and the galprop_sequence, if any, matches the
\* slots), construction raises the duplicate-parameter-key error naming a
\* colliding key, and no model is returned.
C3_CollisionRaisesNamingKey ==
    (status # "new" /\ CollidingKeys # {} /\ SequenceMatches) =>
        /\ status = "failed"
        /\ error.kind = "DuplicateParameterKey"
        /\ error.key \in CollidingKeys

(* C4 *)

\* C4: when the constructor of the flat variant returns, the keys of param_dict
\* are exactly the namespaced keys <identity>_<k> of the blueprint's component
\* models, each at its component's private value for k, and the snapshot equals
\* it.
C4_FlatMergeIsUnion ==
    [][(ConstructSubhalo /\ status' = "constructed") =>
         LET pd == heap'[self'.param_dict]
         IN  /\ DOMAIN pd = UNION {c.composite : c \in Contributions}
             /\ \A c \in Contributions : \A k \in PrivateKeys(c.component) :
                   pd[c.component.galprop_key \o "_" \o k] = c.component.param_dict[k]
             /\ heap'[self'.init_param_dict] = pd]_vars

\* two slots have contributed one namespaced key each
C4_Witness ==
    /\ variant = "flat" /\ status = "constructed"
    /\ self.param_dict = ParamObj
    /\ ParamDict = ("a_c" :> 1) @@ ("b_d" :> 2)
    /\ heap[InitObj] = ParamDict

(* C5 *)

\* C5 as stated: in the typed variant each private key k of a component is
\* stored under a rewritten key <identity>_<k> and not under k itself.
C5_TypedKeysNamespaced ==
    (variant = "typed" /\ status = "constructed") =>
        \A c \in Contributions : \A k \in PrivateKeys(c.component) :
            /\ k \notin DOMAIN ParamDict
            /\ \E identity \in GalTypes \cup {"occupation", "profile"} :
                  (identity \o "_" \o k) \in DOMAIN ParamDict

\* C5, amended: the constructor namespaces in the flat variant only. When it
\* returns, a private key k of a component is stored under <identity>_<k> in
\* the flat variant and under k itself in the typed variant, at the component's
\* value, and the typed param_dict has no other key.
C5_NamespacingFlatOnly ==
    [][((ConstructSubhalo \/ ConstructHod) /\ status' = "constructed") =>
         LET pd == heap'[self'.param_dict]
             stored(c, k) == IF variant = "flat"
                             THEN c.component.galprop_key \o "_" \o k ELSE k
         IN  /\ \A c \in Contributions : \A k \in PrivateKeys(c.component) :
                   /\ stored(c, k) \in DOMAIN pd
                   /\ pd[stored(c, k)] = c.component.param_dict[k]
             /\ variant = "typed" =>
                   DOMAIN pd = UNION {PrivateKeys(c.component) : c \in Contributions}]_vars

\* a typed model whose two galaxy types contributed the keys m and n unchanged
C5_Witness ==
    /\ variant = "typed" /\ status = "constructed"
    /\ Len(self.gal_types) = 2
    /\ self.param_dict = ParamObj
    /\ ParamDict = ("m" :> 1) @@ ("n" :> 2)

(* C6 *)

\* C6: for every slot of a constructed flat model, _get_stripped_param_dict
\* returns without error a mapping over the component's private keys, and
\* namespacing it again gives param_dict restricted to the composite keys of
\* that component.
C6_StripInvertsNamespacing ==
    (variant = "flat" /\ status = "constructed") =>
        \A i \in DOMAIN self.galprop_list :
            LET slot == self.galprop_list[i]
                component == Lookup(self.model_blueprint, slot)
                stripped == StrippedParamDict(self, ParamDict, slot)
                mine == {component.galprop_key \o "_" \o k : k \in PrivateKeys(component)}
            IN  /\ stripped.raised.kind = "none"
                /\ DOMAIN stripped.output = PrivateKeys(component)
                /\ Namespaced(component.galprop_key, stripped.output)
                     = [k \in mine |-> ParamDict[k]]

(* C7 *)

\* C7: a constructed flat model has a behaviour mc_<slot> for every slot of the
\* evaluation order, and every call of one hands the component's Monte Carlo
\* method the caller's keyword arguments and the component's parameters as
\* param_dict holds them at the call.
C7_CallForwardsLiveStrip ==
    (variant = "flat" /\ status = "constructed") =>
        /\ \A i \in DOMAIN self.galprop_list :
              ("mc_" \o self.galprop_list[i]) \in DOMAIN self.behaviors
        /\ \A slot \in Range(Keys(SlotsOf(blueprint))) :
              lastCall.name = "mc_" \o slot =>
                LET component == Lookup(self.model_blueprint, slot)
                IN  /\ lastCall.outcome = "returned"
                    /\ lastCall.kwargs \in Tables
                    /\ lastCall.method = "mc_" \o slot
                    /\ lastCall.target = component.galprop_key
                    /\ lastCall.live = ParamDict
                    /\ lastCall.input_param_dict =
                         [k \in PrivateKeys(component) |->
                            ParamDict[component.galprop_key \o "_" \o k]]

(* C8 *)

\* C8: every call of mc_occupation_<type> or mean_occupation_<type> hands the
\* occupation model the values param_dict holds at the call, whatever item
\* assignments, assignments of a new mapping and resets came before.
C8_OccupationSeesLiveParams ==
    (variant = "typed" /\ status = "constructed" /\ lastCall.outcome # "none") =>
        /\ lastCall.outcome = "returned"
        /\ lastCall.input_param_dict = ParamDict

(* C9 *)

\* C9: a galprop_sequence that differs from the blueprint's slot keys in
\* membership or in size makes construction raise the ordering-mismatch error.
C9_MismatchRaises ==
    (variant = "flat" /\ status # "new" /\ ~SequenceMatches) =>
        /\ status = "failed"
        /\ error.kind = "OrderingMismatch"

(* C10 *)

\* C10: a flat model constructed with a galprop_sequence that is a permutation
\* of the slot keys has that sequence as its galprop_list, and the loops of
\* _build_composite_lists, _set_init_param_dict and _set_primary_behaviors have
\* each visited the slots in that order; a construction that raised after
\* accepting the sequence visited a prefix of it.
C10_SequencePreserved ==
    (variant = "flat" /\ galprop_sequence.given /\ SequenceMatches) =>
        /\ status = "constructed" =>
              /\ self.galprop_list = galprop_sequence.list
              /\ self.visits.meta = galprop_sequence.list
              /\ self.visits.params = galprop_sequence.list
              /\ self.visits.bind = galprop_sequence.list
        /\ (status = "failed" /\ error.kind # "OrderingMismatch") =>
              /\ self.galprop_list = galprop_sequence.list
              /\ IsPrefix(self.visits.meta, galprop_sequence.list)
              /\ IsPrefix(self.visits.params, galprop_sequence.list)
              /\ self.visits.bind = <<>>

\* a model constructed in an order that is not the blueprint's keys() order
C10_Witness ==
    /\ variant = "flat" /\ status = "constructed"
    /\ Keys(SlotsOf(blueprint)) = <<"a", "b">>
    /\ galprop_sequence.given
    /\ self.galprop_list = <<"b", "a">>
    /\ self.visits.params = <<"b", "a">>
    /\ DOMAIN ParamDict = {"a_c", "b_d"}

(* C11 *)

\* the occupation bound of galaxy type t of the caller's blueprint
BoundOf(t) == Feature(Lookup(blueprint, t), "occupation").occupation_bound

\* C11: the gal_types of a constructed typed model holds each galaxy-type key
\* of the blueprint (every key but mock_factory) exactly once, and the
\* occupation bounds never decrease along it.
C11_GalTypesSortedPermutation ==
    (variant = "typed" /\ status = "constructed") =>
        LET keys == Keys(SlotsOf(blueprint))
        IN  /\ Len(self.gal_types) = Len(keys)
            /\ Range(self.gal_types) = Range(keys)
            /\ \A i, j \in DOMAIN self.gal_types :
                  i # j => self.gal_types[i] # self.gal_types[j]
            /\ \A i \in 1..(Len(self.gal_types) - 1) :
                  BoundOf(self.gal_types[i]) <= BoundOf(self.gal_types[i + 1])

\* a model whose blueprint has the type of the larger bound first in keys()
\* order: the sort has moved it to the end
C11_Witness ==
    /\ variant = "typed" /\ status = "constructed"
    /\ Keys(SlotsOf(blueprint)) = <<"cen", "sat">>
    /\ BoundOf("cen") = 2 /\ BoundOf("sat") = 1
    /\ self.gal_types = <<"sat", "cen">>

(* C12 *)

\* where the key t stands in the order the caller wrote the blueprint's keys
DeclaredAt(t) == CHOOSE i \in DOMAIN declared : declared[i] = t

\* C12: in the gal_types of a constructed typed model, two galaxy types of
\* equal occupation bound stand in the order in which the caller's blueprint
\* declared them.
C12_TiesKeepDeclarationOrder ==
    (variant = "typed" /\ status = "constructed") =>
        \A i, j \in DOMAIN self.gal_types :
            (i < j /\ BoundOf(self.gal_types[i]) = BoundOf(self.gal_types[j]))
                => DeclaredAt(self.gal_types[i]) < DeclaredAt(self.gal_types[j])

(* C13 *)

\* the new_haloprop_func_dict keys of a component model
AuxKeys(component) ==
    IF component.meta.has_new_haloprop_func_dict
    THEN DOMAIN component.meta.new_haloprop_func_dict ELSE {}

\* the new_haloprop_func_dict keys that two component models of the blueprint
\* both define
SharedAuxKeys ==
    UNION { AuxKeys(p[1].component) \cap AuxKeys(p[2].component) :
              p \in {q \in Contributions \X Contributions : q[1].at # q[2].at} }

\* C13: when two component models of the blueprint define the same
\* new_haloprop_func_dict key, construction raises the error for a repeated
\* auxiliary-function key, and the error names such a key.
C13_DuplicateAuxKeyRaises ==
    (status # "new" /\ SharedAuxKeys # {} /\ SequenceMatches) =>
        /\ status = "failed"
        /\ error.kind = "DuplicateAuxiliaryFunctionKey"
        /\ error.key \in SharedAuxKeys

(* C14 *)

\* the profile model of galaxy type t of the caller's blueprint
ProfileOf(t) == Feature(Lookup(blueprint, t), "profile")

\* the profile model of galaxy type t declares the profile-parameter key k
Declares(t, k) == k \in Range(ProfileOf(t).prof_param_keys)

\* the profile-parameter keys that the profile model of exactly one galaxy
\* type declares
DeclaredOnce ==
    {k \in UNION {Range(ProfileOf(t).prof_param_keys) : t \in Range(self.gal_types)} :
        Cardinality({t \in Range(self.gal_types) : Declares(t, k)}) = 1}

\* C14: in a constructed typed model, a profile-parameter key that the
\* profile model of only one galaxy type declares has an accessor <key>_<type>
\* for every other type, and that accessor is the very object bound as
\* <key>_halos; <key>_<type> of a type whose own profile model declares the
\* key is that profile model's accessor.
C14_FallbackIsSharedAccessor ==
    (variant = "typed" /\ status = "constructed") =>
        /\ \A k \in DeclaredOnce : \A t \in Range(self.gal_types) :
              ~Declares(t, k) =>
                 /\ HasAttr(self, k \o "_" \o t)
                 /\ HasAttr(self, k \o "_halos")
                 /\ self.behaviors[k \o "_" \o t] = self.behaviors[k \o "_halos"]
        /\ \A t \in Range(self.gal_types) :
              \A k \in Range(ProfileOf(t).prof_param_keys) :
                 /\ HasAttr(self, k \o "_" \o t)
                 /\ self.behaviors[k \o "_" \o t] = Accessor(ProfileOf(t).id, k, 479)

\* rs, which only the profile model of cen declares, is reachable as rs_sat,
\* which is the object the first pass bound as rs_halos; conc_sat is the
\* accessor of the profile model of sat
C14_Witness ==
    /\ variant = "typed" /\ status = "constructed"
    /\ Range(self.gal_types) = {"cen", "sat"}
    /\ Declares("cen", "rs") /\ ~Declares("sat", "rs") /\ Declares("sat", "conc")
    /\ self.behaviors["rs_sat"] = Accessor("cen.profile.halo_prof_model", "rs", 475)
    /\ self.behaviors["conc_sat"].owner = "sat.profile"

(* C15 *)

\* the profile-parameter keys that the components of the blueprint declare,
\* profile models or not
AllProfParamKeys ==
    UNION { IF c.component.has_prof_param_keys
            THEN Range(c.component.prof_param_keys) ELSE {} : c \in Contributions }

\* C15: the final pass of the typed constructor never raises for want of a
\* <key>_halos accessor, and a constructed typed model has an accessor
\* <key>_<type> for every profile-parameter key that any component of the
\* blueprint declares and every galaxy type.
C15_EveryKeyHasAccessor ==
    (variant = "typed" /\ status # "new") =>
        /\ ~(/\ status = "failed"
              /\ error.kind = "AttributeError"
              /\ error.key \in {k \o "_halos" : k \in AllProfParamKeys})
        /\ status = "constructed" =>
              /\ self.prof_param_keys = AllProfParamKeys
              /\ \A k \in AllProfParamKeys : \A t \in Range(self.gal_types) :
                    HasAttr(self, k \o "_" \o t)

(* C16 *)

\* restore_init_param_dict of the variant at hand, on the instance m
RestoreInitParamDict(m) ==
    IF variant = "flat" THEN SubhaloRestoreInitParamDict(m) ELSE HodRestoreInitParamDict(m)

\* a step of restore_init_param_dict.  The conjuncts before Restore follow from
\* it, and are quick to evaluate on a step that is not one.
RestoreStep ==
    /\ status = "constructed"
    /\ lastCall' = NoCall
    /\ self'.param_dict = self.init_param_dict
    /\ heap'[self.init_param_dict] = heap[self.init_param_dict]
    /\ Restore

\* C16: a second restore_init_param_dict, right after one, changes nothing:
\* param_dict and the snapshot refer to the same objects with the same values,
\* and the same behaviours are bound.
C16_RestoreIdempotent ==
    [][RestoreStep =>
         LET again == RestoreInitParamDict(self')
             heap_again == Collect(heap', again)
         IN  /\ again.param_dict = self'.param_dict
             /\ again.init_param_dict = self'.init_param_dict
             /\ heap_again[again.param_dict] = heap'[self'.param_dict]
             /\ heap_again[again.init_param_dict] = heap'[self'.init_param_dict]
             /\ again.behaviors = self'.behaviors
             /\ again = self']_vars

\* a typed model of two galaxy types that has been reset: param_dict is the
\* snapshot object, which holds parameters, and the behaviours hold it
C16_Witness ==
    /\ status = "constructed" /\ variant = "typed"
    /\ Len(self.gal_types) = 2
    /\ self.param_dict = InitObj
    /\ DOMAIN heap[InitObj] = {"m", "n"}
    /\ \A t \in Range(self.gal_types) :
          self.behaviors["mc_occupation_" \o t].ref = InitObj

(* C17 *)

\* the composite metadata of the instance m
CompositeMetadata(m) ==
    [haloprop_list |-> m.haloprop_list,
     publications |-> m.publications,
     new_haloprop_func_dict |-> m.new_haloprop_func_dict,
     prof_param_keys |-> m.prof_param_keys,
     galprop_list |-> m.galprop_list,
     gal_types |-> m.gal_types,
     occupation_bound |-> m.occupation_bound,
     model_blueprint |-> m.model_blueprint]

\* the instance as the constructor left it
AsConstructed ==
    IF variant = "flat" THEN SubhaloInit(blueprint, galprop_sequence) ELSE HodInit(blueprint)

\* C17: a restore_init_param_dict leaves the halo-property keys, the
\* publications, the auxiliary-function aggregate, the profile-parameter keys,
\* the order of the slots (galaxy types) and the model's blueprint as they
\* were, which is as the constructor left them.
C17_RestoreKeepsMetadata ==
    [][RestoreStep =>
         /\ CompositeMetadata(self') = CompositeMetadata(self)
         /\ CompositeMetadata(self') = CompositeMetadata(AsConstructed)]_vars

\* a flat model built in an order that is not its blueprint's, with metadata
\* from both slots, that has been reset
C17_Witness ==
    /\ status = "constructed" /\ variant = "flat"
    /\ self.param_dict = InitObj
    /\ self.galprop_list = <<"b", "a">>
    /\ UnorderedGalpropList(self.model_blueprint) = <<"a", "b">>
    /\ self.publications = {"p1", "p2"}
    /\ self.haloprop_list = {"mvir", "conc"}
    /\ ~self.new_haloprop_func_dict.is_dict

(* C18 *)

\* the default mock factory of the variant at hand
DefaultMockFactory == IF variant = "flat" THEN SubhaloMockFactory ELSE HodMockFactory

\* C18: a constructor, whether it returns or raises, leaves the caller's
\* blueprint with the keys and values it had; and the model_blueprint of a
\* constructed model has the caller's entries and a mock_factory entry, which
\* is the caller's when the caller's blueprint has one and the variant's
\* default factory otherwise.
C18_BlueprintCopied ==
    [][(ConstructSubhalo \/ ConstructHod) =>
         /\ blueprint' = blueprint
         /\ status' = "constructed" =>
               LET own == self'.model_blueprint
               IN  /\ SubSeq(own, 1, Len(blueprint)) = blueprint
                   /\ HasKey(own, "mock_factory")
                   /\ Cardinality({i \in DOMAIN own : own[i].key = "mock_factory"}) = 1
                   /\ Lookup(own, "mock_factory") =
                         IF HasKey(blueprint, "mock_factory")
                         THEN Lookup(blueprint, "mock_factory")
                         ELSE DefaultMockFactory]_vars

\* a typed model whose caller left mock_factory out: the model's blueprint has
\* the default factory, the caller's has no such key
C18_Witness ==
    /\ status = "constructed" /\ variant = "typed"
    /\ ~HasKey(blueprint, "mock_factory")
    /\ Len(self.model_blueprint) = Len(blueprint) + 1
    /\ Lookup(self.model_blueprint, "mock_factory") = HodMockFactory

\* a flat model whose caller supplied a mock factory: the model's blueprint
\* holds the caller's
C18_WitnessSupplied ==
    /\ status = "constructed" /\ variant = "flat"
    /\ HasKey(blueprint, "mock_factory")
    /\ Lookup(self.model_blueprint, "mock_factory") = MockFactory("UserMockFactory")

(* C19 *)

\* out = sample * radius / 1000 + centre, as an equation between fractions
IsRescaledAndCentred(out, sample, radius, centre) ==
    out.num * (sample.den * radius.den * 1000 * centre.den)
      = out.den * (sample.num * radius.num * centre.den
                     + centre.num * sample.den * radius.den * 1000)

\* C19: a constructed typed model has a position generator for every galaxy
\* type, and a call of one on a table of n rows returns three arrays of n
\* entries; the entry of row i on an axis is the profile model's draw for row
\* i on that axis, times the boundary radius of row i, over 1000, plus the
\* host's coordinate of row i on that axis.  A draw (1/10, 0, 0) in a halo of
\* radius 200 at (10, 20, 30) gives (10.02, 20, 30).
C19_PositionsRescaledAndCentred ==
    (variant = "typed" /\ status = "constructed") =>
        /\ \A t \in Range(self.gal_types) :
              /\ HasAttr(self, "pos_" \o t)
              /\ self.behaviors["pos_" \o t].func = "mc_pos"
              /\ self.behaviors["pos_" \o t].arg = t
        /\ lastCall.method = "mc_pos" =>
              LET table == lastCall.kwargs
                  centre == <<table.x, table.y, table.z>>
                  n == Len(table.boundary)
              IN  /\ lastCall.outcome = "returned"
                  /\ lastCall.target = ProfileOf(self.behaviors[lastCall.name].arg).id
                  /\ Len(lastCall.output) = 3
                  /\ \A axis \in 1..3 :
                        /\ DOMAIN lastCall.output[axis] = 1..n
                        /\ \A i \in 1..n :
                              IsRescaledAndCentred(lastCall.output[axis][i],
                                                   lastCall.sample[axis][i],
                                                   table.boundary[i], centre[axis][i])
                  /\ \A i \in 1..n :
                        (/\ table.boundary[i] = Whole(200)
                         /\ <<table.x[i], table.y[i], table.z[i]>>
                              = <<Whole(10), Whole(20), Whole(30)>>
                         /\ <<lastCall.sample[1][i], lastCall.sample[2][i],
                               lastCall.sample[3][i]>>
                              = <<Rat(1, 10), Whole(0), Whole(0)>>)
                        => /\ lastCall.output[1][i] = Rat(1002, 100)
                           /\ lastCall.output[2][i] = Whole(20)
                           /\ lastCall.output[3][i] = Whole(30)

\* pos_sat has been called on a table of two rows, the second of which is
\* the halo of radius 200 at (10, 20, 30) with the draw (1/10, 0, 0)
C19_Witness ==
    /\ variant = "typed" /\ status = "constructed"
    /\ Len(self.gal_types) = 2
    /\ lastCall.name = "pos_sat" /\ lastCall.outcome = "returned"
    /\ Len(lastCall.kwargs.boundary) = 2
    /\ lastCall.kwargs.boundary = <<Whole(150), Whole(200)>>
    /\ lastCall.sample[1] = <<Rat(0 - 1, 2), Rat(1, 10)>>
    /\ lastCall.output[1] = <<Rat(0 - 3, 40), Rat(501, 50)>>

(* C20 *)

Returned == mock'.outcome \in {"built", "populated"}

\* C21: after every call of populate_mock that returns normally, the first
\* call on a model without a mock included, the model has a mock attribute and
\* that mock's populate() has run at least once.
C21_ReturnedMockIsPopulated ==
    [][PopulateMock /\ Returned =>
         /\ mock'.attr # NoObj
         /\ mock'.populate_calls >= 1]_vars

(* C22 *)

\* the private param_dict of a component model: whether it has one, and its items
PrivateParamDict(component) ==
    [has_param_dict |-> component.has_param_dict, param_dict |-> component.param_dict]

\* the private param_dict of every component model the blueprint bp reaches, at
\* the place of the component in bp
PrivateParamDicts(bp) ==
    [i \in DOMAIN bp |->
       IF bp[i].value.kind = "gal_type_dict"
       THEN [j \in DOMAIN bp[i].value.items |->
               PrivateParamDict(bp[i].value.items[j].value)]
       ELSE PrivateParamDict(bp[i].value)]

\* C22: no step (construction, an edit of the composite param_dict by the
\* caller, a call of a bound behaviour, a reset) changes the private param_dict
\* of a component model: the components the caller's blueprint reaches and the
\* components the model's blueprint reaches keep the keys and values they had
\* before the model was built.
C22_ComponentParamDictsUntouched ==
    [][/\ PrivateParamDicts(blueprint') = PrivateParamDicts(blueprint)
       /\ self'.model_blueprint # <<>> =>
             SubSeq(PrivateParamDicts(self'.model_blueprint), 1, Len(blueprint))
                = PrivateParamDicts(blueprint)]_vars

\* a model built from a component with parameters, whose composite param_dict
\* the caller has edited since construction, and whose bound behaviour has then
\* been called
C22_Witness ==
    /\ status = "constructed"
    /\ \E c \in Contributions : c.component.has_param_dict /\ c.component.param_dict # EmptyDict
    /\ ParamDict # heap[self.init_param_dict]
    /\ lastCall.outcome = "returned"

(* C23 *)

\* the component models the caller's blueprint reaches that have no param_dict
WithoutParamDict == {c \in Contributions : ~c.component.has_param_dict}

\* C23: in both variants a component model without a private param_dict counts
\* as one with the empty dictionary: the constructor does not fail for the lack
\* of it, the component adds no key to param_dict, and in the flat variant its
\* stripped parameter subset is empty.
C23_MissingParamDictIsEmpty ==
    (status # "new" /\ WithoutParamDict # {}) =>
        /\ ~(error.kind = "AttributeError" /\ error.key = "param_dict")
        /\ status = "constructed" =>
              /\ DOMAIN ParamDict =
                    UNION {c.composite : c \in Contributions \ WithoutParamDict}
              /\ variant = "flat" =>
                    \A c \in WithoutParamDict :
                        StrippedParamDict(self, ParamDict, c.at).output = EmptyDict

(* C24 *)

\* the errors of construction that C24 speaks of
ValidationErrors ==
    {"OrderingMismatch", "DuplicateParameterKey", "DuplicateAuxiliaryFunctionKey"}

\* C24: in both variants, when construction raises an ordering-mismatch,
\* duplicate-parameter-key or duplicate-auxiliary-function-key error, no
\* dynamically named behaviour has been bound on the instance and the loop that
\* binds them has visited no slot.
C24_ValidationErrorsBeforeBinding ==
    (status = "failed" /\ error.kind \in ValidationErrors) =>
        /\ self.behaviors = EmptyDict
        /\ self.visits.bind = <<>>

\* a flat construction that failed on a duplicate parameter key, after the
\* metadata loop had visited both slots
C24_Witness ==
    /\ status = "failed"
    /\ variant = "flat"
    /\ error.kind = "DuplicateParameterKey"
    /\ Len(self.visits.meta) = 2
    /\ self.behaviors = EmptyDict

(* C25 *)

\* the first galaxy type, in the order of m.gal_types, whose profile model
\* declares the profile-parameter key k
FirstDeclaring(m, k) ==
    m.gal_types[CHOOSE i \in DOMAIN m.gal_types :
                   /\ Declares(m.gal_types[i], k)
                   /\ \A j \in 1..(i - 1) : ~Declares(m.gal_types[j], k)]

\* the profile-parameter keys that the profile models of m's galaxy types declare
ProfileDeclared(m) ==
    UNION {Range(ProfileOf(t).prof_param_keys) : t \in Range(m.gal_types)}

\* C25: in the typed variant, <key>_halos of a constructed model is the
\* accessor of the halo profile model of the first galaxy type, in gal_types
\* order, whose profile model declares the key; the constructor binds it once,
\* for that type, and a restore_init_param_dict binds no <key>_halos and leaves
\* each one the object it was.
C25_HalosBoundOnceFromFirstType ==
    [][(variant = "typed" /\ status' = "constructed") =>
          /\ \A k \in ProfileDeclared(self') :
                /\ HasAttr(self', k \o "_halos")
                /\ self'.behaviors[k \o "_halos"] =
                      Accessor(ProfileOf(FirstDeclaring(self', k)).id \o ".halo_prof_model",
                               k, 475)
          /\ status = "new" =>
                \A k \in ProfileDeclared(self') :
                   /\ Cardinality({i \in DOMAIN self'.visits.halos :
                                      self'.visits.halos[i][1] = k}) = 1
                   /\ <<k, FirstDeclaring(self', k)>> \in Range(self'.visits.halos)
          /\ RestoreStep =>
                /\ self'.visits.halos = <<>>
                /\ \A k \in ProfileDeclared(self) :
                      self'.behaviors[k \o "_halos"] = self.behaviors[k \o "_halos"]]_vars

\* conc, which the profile models of both cen and sat declare, is bound as
\* conc_halos from the halo profile model of cen, the first in gal_types; the
\* model has been reset since
C25_Witness ==
    /\ variant = "typed" /\ status = "constructed"
    /\ self.gal_types = <<"cen", "sat">>
    /\ Declares("cen", "conc") /\ Declares("sat", "conc")
    /\ self.behaviors["conc_halos"].owner = "cen.profile.halo_prof_model"
    /\ self.param_dict = self.init_param_dict

(* C26 *)

\* the (key, function) pairs that the component models of the blueprint
\* register in their new_haloprop_func_dict
RegisteredAuxFuncs ==
    UNION { {<<k, c.component.meta.new_haloprop_func_dict[k]>> : k \in AuxKeys(c.component)} :
              c \in Contributions }

\* C26: in both variants, when no two component models share a
\* new_haloprop_func_dict key, construction does not fail in merging these
\* dicts, and new_haloprop_func_dict of the constructed model is a mapping
\* whose items are the keys the components register, each with the function
\* its component registered, however many components register some.
C26_AuxFuncsAreMappingOfUnion ==
    (status # "new" /\ SharedAuxKeys = {}) =>
        /\ ~(status = "failed" /\ error.kind = "AttributeError" /\ error.key = "items")
        /\ status = "constructed" =>
              /\ self.new_haloprop_func_dict.is_dict
              /\ self.new_haloprop_func_dict.items = RegisteredAuxFuncs

(* C27 *)

\* the outcomes of a populate_mock that an exception ended
PopulateErrors == {"TypeError", "IOError", "FactoryError"}

\* C27: a populate_mock called on a model without a mock, in which the
\* snapshot cannot be made or the mock factory raises, ends with that error
\* and leaves the model without a mock attribute, its populate() not called and
\* the instance, param_dict and the bound behaviours as they were; the next
\* populate_mock goes to the snapshot and the factory again, and calls no
\* populate().
C27_FailedPopulateLeavesNoMock ==
    [][PopulateMockUnreliable =>
         /\ (mock.attr = NoObj /\ mock'.outcome \in PopulateErrors) =>
               /\ mock'.attr = NoObj
               /\ mock'.populate_calls = mock.populate_calls
               /\ self' = self
               /\ heap' = heap
         /\ mock.outcome \in PopulateErrors =>
               /\ mock'.outcome \in PopulateErrors \cup {"built"}
               /\ mock'.populate_calls = mock.populate_calls]_vars

\* the mock factory raised in one call of populate_mock, and the next call
\* built the mock with a second call of the factory
C27_Witness ==
    /\ status = "constructed"
    /\ mock.outcome = "built"
    /\ mock.attr # NoObj
    /\ mock.factory_calls = 2
    /\ mock.populate_calls = 0

(* C28 *)

\* C28: in a constructed typed model every galaxy type t of gal_types has a
\* behaviour bound under the name mc_pos_<t>, and that behaviour is mc_pos of
\* the model with gal_type fixed to t.
C28_PosBoundAsMcPos ==
    (variant = "typed" /\ status = "constructed") =>
        \A t \in Range(self.gal_types) :
            /\ HasAttr(self, "mc_pos_" \o t)
            /\ self.behaviors["mc_pos_" \o t].func = "mc_pos"
            /\ self.behaviors["mc_pos_" \o t].owner = "self"
            /\ self.behaviors["mc_pos_" \o t].arg = t

(* C29 *)

\* C29: in every constructed model, whether the caller supplied mock_factory
\* or the default was injected, mock_factory is no slot and no galaxy type: it
\* is not in galprop_list, gal_types or occupation_bound, the loops that build
\* param_dict and the metadata aggregates do not visit it, and no behaviour
\* named after it is bound.
C29_MockFactoryIsNoSlot ==
    status = "constructed" =>
        /\ "mock_factory" \notin Range(self.galprop_list)
        /\ "mock_factory" \notin Range(self.gal_types)
        /\ "mock_factory" \notin DOMAIN self.occupation_bound
        /\ "mock_factory" \notin Range(self.visits.params) \cup Range(self.visits.meta)
        /\ DOMAIN self.behaviors \cap
              {"mc_mock_factory", "mc_occupation_mock_factory", "pos_mock_factory"} = {}

(* C30 *)

\* the slots whose behaviours restore_init_param_dict binds again on instance m
Rebound(m) == Range(SubhaloRestoreInitParamDict(m).visits.bind)

\* C30: in the flat variant, once the constructor has returned, no step of
\* the caller that assigns to no attribute of the model (an edit of an item of
\* param_dict, a change made to the list that was passed as galprop_sequence, a
\* reset) changes galprop_list or the set of behaviours that a later
\* restore_init_param_dict binds again.
C30_OrderFixedAtConstruction ==
    [][(variant = "flat" /\ status = "constructed") =>
          /\ self'.galprop_list = self.galprop_list
          /\ Rebound(self') = Rebound(self)]_vars

====
